---- MODULE Spec2Model ----
(***************************************************************************)
(* StormGuard: the alert targeting and dispatch engine.                    *)
(*                                                                         *)
(*   api/services/notification_service.py   NotificationService            *)
(*   api/routers/alerts.py                  send / read / click / delete   *)
(*   api/routers/users.py                   profile and preferences        *)
(*   airflow/dags/alert_trigger_dag.py      selection, request, run tasks  *)
(*   data_pipeline/db_models.py             User, Alert, UserPreference    *)
(*   api/utils/db.py                        one Session per request        *)
(*                                                                         *)
(* Risk scores are hundredths (0.60 is 60), coordinates whole degrees,     *)
(* datetimes ticks of a clock.                                             *)
(***************************************************************************)
EXTENDS Integers, Sequences, FiniteSets, TLC

\* ------------------------------------------------------- the record shapes
\* Every record below lists its fields in the order of this section.
AlertFields == [id : Nat, user_id : STRING, disaster_type : STRING,
                risk_level : STRING, risk_score : Nat, sent : BOOLEAN,
                read : BOOLEAN, clicked : BOOLEAN, sent_at : Int, read_at : Int]
AlertDataFields == [disaster_type : STRING, risk_level : STRING, risk_score : Nat,
                    latitude : Int, longitude : Int, radius_km : Nat]
PredictionFields == [disaster_type : STRING, risk_score : Nat, latitude : Int,
                     longitude : Int, affected_radius_km : Nat]
RequestFields == [user_ids : Seq(STRING), alert_data : AlertDataFields]
UserFields == [latitude : Int, longitude : Int, notification_enabled : BOOLEAN,
               notification_token : STRING]
PreferenceFields == [hurricane_alerts : BOOLEAN, heat_wave_alerts : BOOLEAN,
                     flood_alerts : BOOLEAN, severe_storm_alerts : BOOLEAN,
                     min_risk_level : STRING, max_daily_alerts : Nat]
SentDict == [user_id : STRING, success : BOOLEAN]
SkippedDict == [success : BOOLEAN, skipped : BOOLEAN, reason : STRING]
FailedDict == [success : BOOLEAN, error : STRING]
ErrorFields == [user_id : STRING, error : STRING]
ResultsFields == [sent : Nat, skipped : Nat, total : Nat, failed : Nat,
                  errors : Seq(ErrorFields)]
OutcomeFields == [result : SentDict \cup SkippedDict \cup FailedDict,
                  raised : BOOLEAN, invoked : BOOLEAN, created : BOOLEAN]
MessageFields == [user_id : STRING, token : STRING, accepted : BOOLEAN]
DecisionFields == [taken : BOOLEAN, prediction : PredictionFields,
                   selected : [STRING -> BOOLEAN], admitted : [STRING -> BOOLEAN],
                   listed : [STRING -> BOOLEAN]]
SendResultFields == [sent : Nat, failed : Nat, errors : Seq(STRING)]
MetricsFields == [timestamp : Int, total_sent : Nat, total_failed : Nat]
RecordStatusFields == [status : STRING, summary : SendResultFields]
SessionFields == [user_id : STRING, endpoint : STRING, current_user : STRING,
                  alert_id : Int, update_data : Seq(PreferenceFields),
                  row : Seq(PreferenceFields \cup AlertFields),
                  body : Seq(PreferenceFields \cup AlertFields)]
ExtraRowFields == [user_id : STRING, row : PreferenceFields]

\* ------------------------------------------------------------------ bounds
MaxTime == 2
MaxAlerts == 3
MaxList == 3
MaxPredictions == 2
MaxStored == 2
MaxRuns == 1

\* --------------------------------------------------------------- constants
NULL == 0 - 1
NoToken == "<NULL>"
Tokens == {NoToken, "", "tok"}
UserIds == {"u1", "u2", "u3"}
Levels == {"LOW", "MEDIUM", "HIGH", "CRITICAL"}
DisasterTypes ==
    {"hurricane", "heat_wave", "flood", "severe_storm", "tornado", "wildfire"}
PrefFields ==
    {"hurricane_alerts", "heat_wave_alerts", "flood_alerts", "severe_storm_alerts"}

RISK_THRESHOLD == 60

HTTP_200_OK == 200
HTTP_403_FORBIDDEN == 403
HTTP_404_NOT_FOUND == 404
HTTP_500_INTERNAL_SERVER_ERROR == 500
NoResponse == 0

\* Optional[T]: None is <<>>, a value v is <<v>>.
None == <<>>
Some(v) == <<v>>

\* the connections of the pool that serve requests side by side
Sessions == {"s1", "s2"}

\* a connection that serves no request and has answered none
NoSession ==
    [user_id |-> "", endpoint |-> "none", current_user |-> "", alert_id |-> 0,
     update_data |-> None, row |-> None, body |-> None]

VARIABLES
    app,               \* NotificationService.app: the FCM client, or None (FALSE)
    users,             \* table users: id -> row
    user_preferences,  \* table user_preferences: user_id -> row, for the users that have one
    alerts,            \* table alerts: a set of rows
    nextId,            \* the next fresh Alert.id
    now,               \* datetime.utcnow()
    pc,                \* send_bulk_alerts: "idle", "loop", "done" or "raised"
    request,           \* the SendAlertRequest being served
    idx,               \* position of the for loop in request.user_ids
    results,           \* the results dict of send_bulk_alerts
    fcm,               \* the messaging.send calls of the request being served
    acked,             \* per user, the sends the transport has accepted so far
    decisions,         \* the eligibility decisions taken for one prediction
    response,          \* status code of the last answer of an alerts or users endpoint
    store,             \* the database: "up", or its reads or its commits raise
    dag_runs,          \* the number of DAG runs scheduled so far
    dag_task,          \* the task the DAG run is in, "none" between runs
    send_result,       \* what the task send_alerts returned, if it has
    record_status,     \* what the task record_alert_status returned, if it has
    alert_metrics,     \* table alert_metrics: the rows in insertion order
    sessions,          \* per connection, the request being served and the row it loaded
    extra_rows         \* rows of user_preferences beyond the first of their user

vars == <<app, users, user_preferences, alerts, nextId, now, pc, request, idx,
          results, fcm, acked, decisions, response, store, dag_runs, dag_task,
          send_result, record_status, alert_metrics, sessions, extra_rows>>

\* the state of a DAG run
orchestration == <<dag_runs, dag_task, send_result, record_status, alert_metrics>>

\* the requests in flight and what only their interleaving can produce
concurrency == <<sessions, extra_rows>>

\* ------------------------------------------------------------ eligibility

\* str.lower() on the disaster types that occur
lower(disaster_type) ==
    CASE disaster_type = "Hurricane" -> "hurricane"
      [] OTHER -> disaster_type

type_map(disaster_type) ==
    CASE disaster_type = "hurricane" -> Some("hurricane_alerts")
      [] disaster_type = "heat_wave" -> Some("heat_wave_alerts")
      [] disaster_type = "flood" -> Some("flood_alerts")
      [] disaster_type = "severe_storm" -> Some("severe_storm_alerts")
      [] disaster_type = "tornado" -> Some("severe_storm_alerts")
      [] disaster_type = "wildfire" -> Some("severe_storm_alerts")
      [] OTHER -> None

min_risk(level) ==
    CASE level = "LOW" -> 30
      [] level = "MEDIUM" -> 60
      [] level = "HIGH" -> 80
      [] level = "CRITICAL" -> 90
      [] OTHER -> 60

_should_send_notification(alert_data, preferences) ==
    IF preferences = None THEN TRUE
    ELSE LET p == preferences[1]
             pref_field == type_map(lower(alert_data.disaster_type))
         IN IF pref_field # None /\ ~p[pref_field[1]] THEN FALSE
            ELSE IF alert_data.risk_score < min_risk(p.min_risk_level) THEN FALSE
            ELSE TRUE

risk_threshold_map(level) ==
    CASE level = "LOW" -> 30
      [] level = "MEDIUM" -> 60
      [] level = "HIGH" -> 80
      [] level = "CRITICAL" -> 95
      [] OTHER -> 60

_get_risk_level(risk_score) ==
    IF risk_score >= 95 THEN "CRITICAL"
    ELSE IF risk_score >= 80 THEN "HIGH"
    ELSE IF risk_score >= 60 THEN "MEDIUM"
    ELSE "LOW"

\* ------------------------------------------------- selection (the DAG)

\* cos(radians(latitude)) in thousandths, for the latitudes predictions lie on.
cos_radians(latitude) ==
    CASE latitude = 0 -> 1000

\* LEFT JOIN user_preferences up ... COALESCE(up.<field>, true)
COALESCE(user_id, field) ==
    IF user_id \in DOMAIN user_preferences THEN user_preferences[user_id][field]
    ELSE TRUE

sql_type_enabled(disaster_type, user_id) ==
    \/ disaster_type = "hurricane" /\ COALESCE(user_id, "hurricane_alerts")
    \/ disaster_type = "heat_wave" /\ COALESCE(user_id, "heat_wave_alerts")
    \/ disaster_type = "flood" /\ COALESCE(user_id, "flood_alerts")
    \/ disaster_type = "severe_storm" /\ COALESCE(user_id, "severe_storm_alerts")
    \/ disaster_type = "tornado" /\ COALESCE(user_id, "severe_storm_alerts")
    \/ disaster_type = "wildfire" /\ COALESCE(user_id, "severe_storm_alerts")

\* A faulty variant of in_bounding_box: the bounds are exclusive.
in_bounding_boxExclusive(user_id, prediction) ==
    LET u == users[user_id]
        radius_km == prediction.affected_radius_km
        c == cos_radians(prediction.latitude)
    IN /\ 111 * u.latitude > 111 * prediction.latitude - radius_km
       /\ 111 * u.latitude < 111 * prediction.latitude + radius_km
       /\ 111 * c * u.longitude > 111 * c * prediction.longitude - 1000 * radius_km
       /\ 111 * c * u.longitude < 111 * c * prediction.longitude + 1000 * radius_km

\* u.latitude BETWEEN lat - radius/111 AND lat + radius/111, and the same for the
\* longitude with radius/(111*cos(radians(lat))); both sides scaled to integers.
in_bounding_box(user_id, prediction) ==
    LET u == users[user_id]
        radius_km == prediction.affected_radius_km
        c == cos_radians(prediction.latitude)
    IN /\ 111 * u.latitude >= 111 * prediction.latitude - radius_km
       /\ 111 * u.latitude <= 111 * prediction.latitude + radius_km
       /\ 111 * c * u.longitude >= 111 * c * prediction.longitude - 1000 * radius_km
       /\ 111 * c * u.longitude <= 111 * c * prediction.longitude + 1000 * radius_km

\* the WHERE clause of the users query
affected_user(user_id, prediction) ==
    /\ users[user_id].notification_enabled
    /\ users[user_id].notification_token # NoToken
    /\ sql_type_enabled(prediction.disaster_type, user_id)
    /\ in_bounding_box(user_id, prediction)

\* up.min_risk_level of the joined row: NULL (None) without a preference row
joined_min_risk_level(user_id) ==
    IF user_id \in DOMAIN user_preferences
    THEN user_preferences[user_id].min_risk_level
    ELSE "None"

\* "if risk_score >= risk_threshold_map.get(min_risk_level, 0.60)"
meets_risk_preference(user_id, prediction) ==
    prediction.risk_score >= risk_threshold_map(joined_min_risk_level(user_id))

alert_entry(user_id, prediction) ==
    [user_id |-> user_id,
     disaster_type |-> prediction.disaster_type,
     risk_score |-> prediction.risk_score,
     latitude |-> prediction.latitude,
     longitude |-> prediction.longitude,
     radius_km |-> prediction.affected_radius_km]

\* the rows of one prediction's query, in table order, kept when the risk
\* preference is met
alerts_for_prediction(prediction, table_order) ==
    LET rows == SelectSeq(table_order, LAMBDA u : affected_user(u, prediction))
        kept == SelectSeq(rows, LAMBDA u : meets_risk_preference(u, prediction))
    IN [i \in 1..Len(kept) |-> alert_entry(kept[i], prediction)]

RECURSIVE identify_affected_users(_, _)
identify_affected_users(predictions, table_order) ==
    IF predictions = <<>> THEN <<>>
    ELSE alerts_for_prediction(Head(predictions), table_order)
         \o identify_affected_users(Tail(predictions), table_order)

\* WHERE ... risk_score > :risk_threshold
get_latest_predictions(stored) ==
    SelectSeq(stored, LAMBDA p : p.risk_score > RISK_THRESHOLD)

\* the alert_request of send_alerts: every user id, the first alert's details
send_alerts_request(alerts_to_send) ==
    LET first_alert == alerts_to_send[1]
    IN [user_ids |-> [i \in 1..Len(alerts_to_send) |-> alerts_to_send[i].user_id],
        alert_data |->
            [disaster_type |-> first_alert.disaster_type,
             risk_level |-> _get_risk_level(first_alert.risk_score),
             risk_score |-> first_alert.risk_score,
             latitude |-> first_alert.latitude,
             longitude |-> first_alert.longitude,
             radius_km |-> first_alert.radius_km]]

\* send_alerts on "response.status_code == 200": the counts of the response
send_alerts_status_200(result) ==
    Some([sent |-> result.sent, failed |-> result.failed, errors |-> result.errors])

\* send_alerts on an exception of requests.post (the timeout of 30 s): nothing
\* counts as sent, every alert as failed
send_alerts_except(alerts_to_send) ==
    Some([sent |-> 0, failed |-> Len(alerts_to_send), errors |-> <<"timeout">>])

\* send_alerts without alerts to send
send_alerts_nothing == Some([sent |-> 0, failed |-> 0, errors |-> <<>>])

\* ------------------------------------------- the notification service

\* db.query(UserPreference).filter(UserPreference.user_id == user_id).first()
query_preferences(user_id) ==
    IF user_id \in DOMAIN user_preferences THEN Some(user_preferences[user_id])
    ELSE None

_create_alert_record(id, user_id, alert_data, t) ==
    [id |-> id,
     user_id |-> user_id,
     disaster_type |-> alert_data.disaster_type,
     risk_level |-> alert_data.risk_level,
     risk_score |-> alert_data.risk_score,
     sent |-> TRUE,
     read |-> FALSE,
     clicked |-> FALSE,
     sent_at |-> t,
     read_at |-> NULL]

\* What one call did: the dict it returned (or, with raised, the exception that
\* left it), whether messaging.send was invoked and whether an Alert row was added.
Outcome(result, raised, invoked, created) ==
    [result |-> result, raised |-> raised, invoked |-> invoked, created |-> created]

\* A faulty variant of send_alert_try: the Alert row is written before the
\* transport answers, so it stays when messaging.send raises.
send_alert_tryRecordsFirst(user_id, alert_data, transport_ok) ==
    IF store = "reads_fail"
    THEN Outcome([success |-> FALSE, error |-> "db.query failed"], TRUE, FALSE, FALSE)
    ELSE IF user_id \notin DOMAIN users
            \/ users[user_id].notification_token \in {NoToken, ""}
    THEN Outcome([success |-> FALSE, error |-> "User or device token not found"],
                 FALSE, FALSE, FALSE)
    ELSE IF ~_should_send_notification(alert_data, query_preferences(user_id))
    THEN Outcome([success |-> FALSE, skipped |-> TRUE,
                  reason |-> "Alert disabled in user preferences"],
                 FALSE, FALSE, FALSE)
    ELSE IF ~transport_ok
    THEN Outcome([success |-> FALSE, error |-> "messaging.send failed"],
                 TRUE, TRUE, TRUE)
    ELSE IF store = "writes_fail"
    THEN Outcome([success |-> FALSE, error |-> "db.commit failed"], TRUE, TRUE, FALSE)
    ELSE Outcome([user_id |-> user_id, success |-> TRUE], FALSE, TRUE, TRUE)

\* The body of the try block. transport_ok: messaging.send returns a message id;
\* otherwise it raises. The queries raise while the store's reads fail, the
\* commit of _create_alert_record while its commits fail.
send_alert_try(user_id, alert_data, transport_ok) ==
    IF store = "reads_fail"
    THEN Outcome([success |-> FALSE, error |-> "db.query failed"], TRUE, FALSE, FALSE)
    ELSE IF user_id \notin DOMAIN users
            \/ users[user_id].notification_token \in {NoToken, ""}
    THEN Outcome([success |-> FALSE, error |-> "User or device token not found"],
                 FALSE, FALSE, FALSE)
    ELSE IF ~_should_send_notification(alert_data, query_preferences(user_id))
    THEN Outcome([success |-> FALSE, skipped |-> TRUE,
                  reason |-> "Alert disabled in user preferences"],
                 FALSE, FALSE, FALSE)
    ELSE IF ~transport_ok
    THEN Outcome([success |-> FALSE, error |-> "messaging.send failed"],
                 TRUE, TRUE, FALSE)
    ELSE IF store = "writes_fail"
    THEN Outcome([success |-> FALSE, error |-> "db.commit failed"], TRUE, TRUE, FALSE)
    ELSE Outcome([user_id |-> user_id, success |-> TRUE], FALSE, TRUE, TRUE)

\* A faulty variant of send_alert: the client is only looked at after the
\* user has been loaded.
send_alertLoadsUserFirst(user_id, alert_data, transport_ok) ==
    IF user_id \notin DOMAIN users \/ users[user_id].notification_token \in {NoToken, ""}
    THEN Outcome([success |-> FALSE, error |-> "User or device token not found"],
                 FALSE, FALSE, FALSE)
    ELSE IF ~app
    THEN Outcome([success |-> FALSE, error |-> "Firebase not initialized"],
                 FALSE, FALSE, FALSE)
    ELSE [send_alert_try(user_id, alert_data, transport_ok) EXCEPT !.raised = FALSE]

\* A faulty variant of send_alert: no except clause, the exception of
\* messaging.send leaves the call.
send_alertNoExcept(user_id, alert_data, transport_ok) ==
    IF ~app
    THEN Outcome([success |-> FALSE, error |-> "Firebase not initialized"],
                 FALSE, FALSE, FALSE)
    ELSE send_alert_try(user_id, alert_data, transport_ok)

send_alert(user_id, alert_data, transport_ok) ==
    IF ~app
    THEN Outcome([success |-> FALSE, error |-> "Firebase not initialized"],
                 FALSE, FALSE, FALSE)
    ELSE LET o == send_alert_try(user_id, alert_data, transport_ok)
         IN \* except Exception as e: return {"success": False, "error": str(e)}
            [o EXCEPT !.raised = FALSE]

\* results = {"total": len(users), "sent": 0, "failed": 0, "skipped": 0, "errors": []}
new_results(user_ids) ==
    [sent |-> 0, skipped |-> 0, total |-> Len(user_ids), failed |-> 0, errors |-> <<>>]

\* A faulty variant of tally: no branch for a skipped result.
tallySkippedAsFailed(res, user_id, result) ==
    IF result.success THEN [res EXCEPT !.sent = @ + 1]
    ELSE [res EXCEPT !.failed = @ + 1,
                     !.errors = Append(@, [user_id |-> user_id,
                                           error |-> IF "error" \in DOMAIN result
                                                     THEN result.error
                                                     ELSE "Unknown error"])]

\* the body of the for loop of send_bulk_alerts after the call
tally(res, user_id, result) ==
    IF result.success THEN [res EXCEPT !.sent = @ + 1]
    ELSE IF "skipped" \in DOMAIN result /\ result.skipped
    THEN [res EXCEPT !.skipped = @ + 1]
    ELSE [res EXCEPT !.failed = @ + 1,
                     !.errors = Append(@, [user_id |-> user_id,
                                           error |-> IF "error" \in DOMAIN result
                                                     THEN result.error
                                                     ELSE "Unknown error"])]

\* A faulty variant of add_alert: the new row takes the place of the user's
\* earlier rows.
add_alertReplaces(rows, alert) ==
    {r \in rows : r.user_id # alert.user_id} \cup {alert}

\* _create_alert_record: self.db.add(alert); self.db.commit()
add_alert(rows, alert) == rows \cup {alert}

\* ------------------------------------------------------------ the inputs

ApiAlertData ==
    {[disaster_type |-> d, risk_level |-> _get_risk_level(r), risk_score |-> r,
      latitude |-> 0, longitude |-> 0, radius_km |-> 100] :
        d \in {"hurricane", "tornado"}, r \in {50, 92}}

HurricaneAlert ==
    [disaster_type |-> "hurricane", risk_level |-> "HIGH", risk_score |-> 92,
     latitude |-> 0, longitude |-> 0, radius_km |-> 100]

HurricanePrediction ==
    [disaster_type |-> "hurricane", risk_score |-> 92, latitude |-> 0,
     longitude |-> 0, affected_radius_km |-> 222]

SeqsUpTo(S, n) == UNION {[1..k -> S] : k \in 0..n}

Permutations_(S) ==
    {f \in [1..Cardinality(S) -> S] : \A i, j \in DOMAIN f : f[i] = f[j] => i = j}

PredictionPool ==
    {[disaster_type |-> "hurricane", risk_score |-> 92, latitude |-> 0,
      longitude |-> 0, affected_radius_km |-> 111],
     [disaster_type |-> "tornado", risk_score |-> 70, latitude |-> 0,
      longitude |-> 0, affected_radius_km |-> 222],
     [disaster_type |-> "flood", risk_score |-> 60, latitude |-> 0,
      longitude |-> 0, affected_radius_km |-> 222]}

\* a hurricane that reaches u1 and u2, and a flood that reaches u3 as well
MultiPool ==
    {[disaster_type |-> "hurricane", risk_score |-> 92, latitude |-> 0,
      longitude |-> 0, affected_radius_km |-> 111],
     [disaster_type |-> "flood", risk_score |-> 85, latitude |-> 0,
      longitude |-> 0, affected_radius_km |-> 222]}

\* no request is being served
NoRequest == [user_ids |-> <<>>, alert_data |-> HurricaneAlert]

NoDecision == [taken |-> FALSE]

\* ------------------------------------------------------------- actions

\* send_bulk_alerts up to its loop: the results dict is created
enter_send_bulk_alerts(user_ids, alert_data) ==
    /\ pc = "idle"
    /\ Len(user_ids) <= MaxList
    /\ nextId + Len(user_ids) <= MaxAlerts + 1
    /\ request' = [user_ids |-> user_ids, alert_data |-> alert_data]
    /\ idx' = 1
    /\ results' = new_results(user_ids)
    /\ fcm' = <<>>
    /\ pc' = IF user_ids = <<>> THEN "done" ELSE "loop"

\* POST /api/v1/alerts/send, up to the first iteration of send_bulk_alerts
StartRequest(user_ids, alert_data) ==
    /\ enter_send_bulk_alerts(user_ids, alert_data)
    /\ UNCHANGED <<app, users, user_preferences, alerts, nextId, now, acked, decisions,
                   response, store, orchestration, concurrency>>

api_send_alert(user_lists, alert_datas) ==
    /\ pc = "idle"
    /\ \E user_ids \in user_lists, alert_data \in alert_datas :
          StartRequest(user_ids, alert_data)

\* one run of the DAG up to its POST: get_latest_predictions,
\* identify_affected_users, send_alerts
alert_trigger_dag(pool) ==
    /\ pc = "idle"
    /\ \E stored \in SeqsUpTo(pool, MaxPredictions) \ {<<>>},
          table_order \in Permutations_(UserIds) :
          LET predictions == get_latest_predictions(stored)
              alerts_to_send == identify_affected_users(predictions, table_order)
              alert_request == send_alerts_request(alerts_to_send)
          IN /\ alerts_to_send # <<>>
             /\ StartRequest(alert_request.user_ids, alert_request.alert_data)

\* one iteration of "for user_id in users" in send_bulk_alerts
send_bulk_alerts ==
    /\ pc = "loop"
    /\ \E transport_ok \in BOOLEAN :
        LET user_id == request.user_ids[idx]
            o == send_alert(user_id, request.alert_data, transport_ok)
        IN /\ fcm' = IF o.invoked
                     THEN Append(fcm, [user_id |-> user_id,
                                       token |-> users[user_id].notification_token,
                                       accepted |-> transport_ok])
                     ELSE fcm
           /\ acked' = IF o.invoked /\ transport_ok
                       THEN [acked EXCEPT ![user_id] = @ + 1]
                       ELSE acked
           /\ alerts' = IF o.created
                        THEN add_alert(alerts, _create_alert_record(
                                 nextId, user_id, request.alert_data, now))
                        ELSE alerts
           /\ nextId' = IF o.created THEN nextId + 1 ELSE nextId
           /\ IF o.raised
              THEN /\ pc' = "raised"
                   /\ UNCHANGED <<results, idx>>
              ELSE /\ results' = tally(results, user_id, o.result)
                   /\ idx' = idx + 1
                   /\ pc' = IF idx = Len(request.user_ids) THEN "done" ELSE "loop"
    /\ UNCHANGED <<app, users, user_preferences, now, request, decisions, response, store,
                   orchestration, concurrency>>

\* "return results": the response leaves, the request is over. A DAG task
\* send_alerts that still waits for it takes its counts.
respond ==
    /\ pc = "done"
    /\ pc' = "idle"
    /\ request' = NoRequest
    /\ idx' = 1
    /\ results' = new_results(<<>>)
    /\ fcm' = <<>>
    /\ IF dag_task = "send_alerts"
       THEN /\ send_result' = send_alerts_status_200(results)
            /\ dag_task' = "record_alert_status"
       ELSE UNCHANGED <<dag_task, send_result>>
    /\ UNCHANGED <<app, users, user_preferences, alerts, nextId, now, acked, decisions,
                   response, store, dag_runs, record_status, alert_metrics,
                   concurrency>>

\* A scheduled run of the DAG with its tasks followed: get_latest_predictions
\* and identify_affected_users raise when their query fails, which fails the
\* run; send_alerts returns at once without alerts, or posts its request.
stormguard_alert_trigger(pool) ==
    /\ dag_task \in {"none", "failed"}
    /\ pc = "idle"
    /\ dag_runs < MaxRuns
    /\ dag_runs' = dag_runs + 1
    /\ record_status' = None
    /\ \E stored \in SeqsUpTo(pool, MaxPredictions) \ {<<>>},
          table_order \in Permutations_(UserIds) :
          LET predictions == get_latest_predictions(stored)
              alerts_to_send == identify_affected_users(predictions, table_order)
              alert_request == send_alerts_request(alerts_to_send)
          IN IF store = "reads_fail"
             THEN /\ dag_task' = "failed"
                  /\ send_result' = None
                  /\ UNCHANGED <<pc, request, idx, results, fcm>>
             ELSE IF alerts_to_send = <<>>
             THEN /\ dag_task' = "record_alert_status"
                  /\ send_result' = send_alerts_nothing
                  /\ UNCHANGED <<pc, request, idx, results, fcm>>
             ELSE /\ dag_task' = "send_alerts"
                  /\ send_result' = None
                  /\ enter_send_bulk_alerts(alert_request.user_ids,
                                            alert_request.alert_data)
    /\ UNCHANGED <<app, users, user_preferences, alerts, nextId, now, acked, decisions,
                   response, store, alert_metrics, concurrency>>

\* requests.post raises after its timeout while the API still serves the request
send_alerts_timeout ==
    /\ dag_task = "send_alerts"
    /\ pc \in {"loop", "done"}
    /\ send_result' = send_alerts_except(request.user_ids)
    /\ dag_task' = "record_alert_status"
    /\ UNCHANGED <<app, users, user_preferences, alerts, nextId, now, pc, request, idx,
                   results, fcm, acked, decisions, response, store, dag_runs,
                   record_status, alert_metrics, concurrency>>

\* A faulty variant of record_alert_status: the exception of the INSERT is not
\* caught and fails the task.
record_alert_statusRaises ==
    /\ dag_task = "record_alert_status"
    /\ IF store = "writes_fail"
       THEN /\ dag_task' = "failed"
            /\ UNCHANGED <<alert_metrics, record_status>>
       ELSE /\ alert_metrics' =
                 Append(alert_metrics, [timestamp |-> now,
                                        total_sent |-> send_result[1].sent,
                                        total_failed |-> send_result[1].failed])
            /\ record_status' = Some([status |-> "recorded", summary |-> send_result[1]])
            /\ dag_task' = "generate_report"
    /\ UNCHANGED <<app, users, user_preferences, alerts, nextId, now, pc, request, idx,
                   results, fcm, acked, decisions, response, store, dag_runs,
                   send_result, concurrency>>

\* the task record_alert_status: the INSERT, whose exception is logged only
record_alert_status ==
    /\ dag_task = "record_alert_status"
    /\ alert_metrics' =
         IF store = "writes_fail" THEN alert_metrics
         ELSE Append(alert_metrics, [timestamp |-> now,
                                     total_sent |-> send_result[1].sent,
                                     total_failed |-> send_result[1].failed])
    /\ record_status' = Some([status |-> "recorded", summary |-> send_result[1]])
    /\ dag_task' = "generate_report"
    /\ UNCHANGED <<app, users, user_preferences, alerts, nextId, now, pc, request, idx,
                   results, fcm, acked, decisions, response, store, dag_runs,
                   send_result, concurrency>>

\* A faulty variant of generate_report: it does not wait for record_alert_status.
generate_reportEarly ==
    /\ dag_task \in {"record_alert_status", "generate_report"}
    /\ dag_task' = "none"
    /\ UNCHANGED <<app, users, user_preferences, alerts, nextId, now, pc, request, idx,
                   results, fcm, acked, decisions, response, store, dag_runs,
                   send_result, record_status, alert_metrics, concurrency>>

\* the task generate_report ends the run
generate_report ==
    /\ dag_task = "generate_report"
    /\ dag_task' = "none"
    /\ UNCHANGED <<app, users, user_preferences, alerts, nextId, now, pc, request, idx,
                   results, fcm, acked, decisions, response, store, dag_runs,
                   send_result, record_status, alert_metrics, concurrency>>

\* the database becomes unavailable for reads or for commits, or recovers
StoreStates == {"up", "reads_fail", "writes_fail"}

store_changes ==
    /\ \E s \in StoreStates \ {store} : store' = s
    /\ UNCHANGED <<app, users, user_preferences, alerts, nextId, now, pc, request, idx,
                   results, fcm, acked, decisions, response, orchestration,
                   concurrency>>

\* PUT /api/v1/users/{user_id} with a body that sets the given fields
update_user_row(user, update_data) ==
    [f \in DOMAIN user |-> IF f \in DOMAIN update_data THEN update_data[f] ELSE user[f]]

UserUpdates ==
    {[notification_token |-> t] : t \in Tokens}
    \cup {[notification_enabled |-> b] : b \in BOOLEAN}

\* A faulty variant of other_user: the caller is not compared with the path.
other_userNever(current_user, user_id) == FALSE

\* "if current_user.get("sub") != user_id: raise HTTPException(403)"
other_user(current_user, user_id) == current_user # user_id

\* GET /api/v1/users/{user_id}
get_user(current_user, user_id) ==
    /\ response' =
         IF other_user(current_user, user_id) THEN HTTP_403_FORBIDDEN
         ELSE IF user_id \notin DOMAIN users THEN HTTP_404_NOT_FOUND
         ELSE HTTP_200_OK
    /\ UNCHANGED <<app, users, user_preferences, alerts, nextId, now, pc, request,
                   idx, results, fcm, acked, decisions, store, orchestration,
                   concurrency>>

update_user(current_user, user_id, update_data) ==
    /\ IF other_user(current_user, user_id)
       THEN response' = HTTP_403_FORBIDDEN /\ UNCHANGED users
       ELSE IF user_id \notin DOMAIN users
       THEN response' = HTTP_404_NOT_FOUND /\ UNCHANGED users
       ELSE /\ users' = [users EXCEPT ![user_id] = update_user_row(@, update_data)]
            /\ response' = HTTP_200_OK
    /\ UNCHANGED <<app, user_preferences, alerts, nextId, now, pc, request, idx,
                   results, fcm, acked, decisions, store, orchestration, concurrency>>

\* the row get_preferences creates when the user has none
get_preferences_default ==
    [hurricane_alerts |-> TRUE, heat_wave_alerts |-> TRUE, flood_alerts |-> TRUE,
     severe_storm_alerts |-> TRUE, min_risk_level |-> "MEDIUM",
     max_daily_alerts |-> 10]

\* UserPreference(user_id=user_id) with the defaults of its columns
DefaultPreference ==
    [hurricane_alerts |-> TRUE, heat_wave_alerts |-> TRUE, flood_alerts |-> TRUE,
     severe_storm_alerts |-> TRUE, min_risk_level |-> "MEDIUM",
     max_daily_alerts |-> 10]

\* the rows of user_preferences with the row of user_id added or replaced
with_preferences(user_id, row) ==
    [u \in DOMAIN user_preferences \cup {user_id} |->
        IF u = user_id THEN row ELSE user_preferences[u]]

\* GET /api/v1/users/{user_id}/preferences
get_preferences(current_user, user_id) ==
    /\ IF other_user(current_user, user_id)
       THEN response' = HTTP_403_FORBIDDEN /\ UNCHANGED user_preferences
       ELSE /\ user_preferences' =
                 IF query_preferences(user_id) = None
                 THEN with_preferences(user_id, get_preferences_default)
                 ELSE user_preferences
            /\ response' = HTTP_200_OK
    /\ UNCHANGED <<app, users, alerts, nextId, now, pc, request, idx, results, fcm,
                   acked, decisions, store, orchestration, concurrency>>

PreferenceUpdates ==
    {[hurricane_alerts |-> b] : b \in BOOLEAN}
    \cup {[min_risk_level |-> l] : l \in {"LOW", "HIGH"}}
    \cup {[max_daily_alerts |-> 1]}

\* "for field, value in update_data.items(): setattr(preferences, field, value)"
update_preferences_row(preferences, update_data) ==
    [f \in DOMAIN preferences |->
        IF f \in DOMAIN update_data THEN update_data[f] ELSE preferences[f]]

\* PUT /api/v1/users/{user_id}/preferences
update_preferences(current_user, user_id, update_data) ==
    /\ IF other_user(current_user, user_id)
       THEN response' = HTTP_403_FORBIDDEN /\ UNCHANGED user_preferences
       ELSE LET preferences == IF query_preferences(user_id) = None
                               THEN DefaultPreference
                               ELSE query_preferences(user_id)[1]
            IN /\ user_preferences' =
                    with_preferences(user_id,
                                     update_preferences_row(preferences, update_data))
               /\ response' = HTTP_200_OK
    /\ UNCHANGED <<app, users, alerts, nextId, now, pc, request, idx, results, fcm,
                   acked, decisions, store, orchestration, concurrency>>

\* ------------------------------ the users endpoints served side by side

\* A faulty variant of IntegrityError: user_id is not declared unique.
IntegrityErrorNever(user_id) == FALSE

\* "user_id = Column(..., unique=True)": the INSERT of a second row for a user
\* raises at the commit
IntegrityError(user_id) == user_id \in DOMAIN user_preferences

\* db.add(preferences); db.commit() for a row that the request has created
insert_preferences(s, user_id, row) ==
    IF IntegrityError(user_id)
    THEN /\ response' = HTTP_500_INTERNAL_SERVER_ERROR
         /\ sessions' = [sessions EXCEPT ![s] = [NoSession EXCEPT !.body = sessions[s].body]]
         /\ UNCHANGED <<user_preferences, extra_rows>>
    ELSE /\ response' = HTTP_200_OK
         /\ sessions' = [sessions EXCEPT ![s] = [NoSession EXCEPT !.body = Some(row)]]
         /\ IF user_id \in DOMAIN user_preferences
            THEN /\ extra_rows' = Append(extra_rows, [user_id |-> user_id, row |-> row])
                 /\ UNCHANGED user_preferences
            ELSE /\ user_preferences' =
                      [u \in DOMAIN user_preferences \cup {user_id} |->
                          IF u = user_id THEN row ELSE user_preferences[u]]
                 /\ UNCHANGED extra_rows

\* a users endpoint up to its query: the ownership check, then the row is loaded
users_endpoint_query(s, endpoint, current_user, user_id, update_data) ==
    /\ sessions[s].endpoint = "none"
    /\ IF other_user(current_user, user_id)
       THEN /\ response' = HTTP_403_FORBIDDEN
            /\ UNCHANGED sessions
       ELSE /\ sessions' =
                 [sessions EXCEPT ![s] =
                     [user_id |-> user_id, endpoint |-> endpoint,
                      current_user |-> current_user, alert_id |-> 0,
                      update_data |-> update_data,
                      row |-> query_preferences(user_id), body |-> sessions[s].body]]
            /\ UNCHANGED response
    /\ UNCHANGED <<app, users, user_preferences, alerts, nextId, now, pc, request,
                   idx, results, fcm, acked, decisions, store, orchestration,
                   extra_rows>>

\* get_preferences from "if not preferences" on: the default row is added and
\* committed, or the loaded row is returned
get_preferences_commit(s) ==
    /\ sessions[s].endpoint = "get_preferences"
    /\ IF sessions[s].row = None
       THEN insert_preferences(s, sessions[s].user_id, get_preferences_default)
       ELSE /\ response' = HTTP_200_OK
            /\ sessions' = [sessions EXCEPT ![s] = [NoSession EXCEPT !.body = sessions[s].row]]
            /\ UNCHANGED <<user_preferences, extra_rows>>
    /\ UNCHANGED <<app, users, alerts, nextId, now, pc, request, idx, results, fcm,
                   acked, decisions, store, orchestration>>

\* the UPDATE of a loaded row: the columns whose value the request has changed
\* on the loaded object are written to the stored row
update_columns(stored, loaded, update_data) ==
    [f \in DOMAIN stored |->
        IF f \in DOMAIN update_data /\ update_data[f] # loaded[f]
        THEN update_data[f] ELSE stored[f]]

\* update_preferences from "if not preferences" on: a new row with the fields of
\* the request is added, or the fields are set on the loaded row; then the commit
update_preferences_commit(s) ==
    /\ sessions[s].endpoint = "update_preferences"
    /\ LET user_id == sessions[s].user_id
           update_data == sessions[s].update_data[1]
       IN IF sessions[s].row = None
          THEN insert_preferences(s, user_id,
                                  update_preferences_row(DefaultPreference, update_data))
          ELSE LET refreshed == update_columns(user_preferences[user_id],
                                               sessions[s].row[1], update_data)
               IN /\ response' = HTTP_200_OK
                  /\ user_preferences' = [user_preferences EXCEPT ![user_id] = refreshed]
                  /\ sessions' =
                       [sessions EXCEPT ![s] = [NoSession EXCEPT !.body = Some(refreshed)]]
                  /\ UNCHANGED extra_rows
    /\ UNCHANGED <<app, users, alerts, nextId, now, pc, request, idx, results, fcm,
                   acked, decisions, store, orchestration>>

\* -------------------------------------------- the alerts endpoints

\* db.query(Alert).filter(Alert.id == alert_id).first()
query_alert(alert_id) ==
    IF \E a \in alerts : a.id = alert_id
    THEN Some(CHOOSE a \in alerts : a.id = alert_id)
    ELSE None

\* A faulty variant of forbidden: the owner is not compared with the caller.
forbiddenNever(current_user, alert) == FALSE

\* "if current_user.get("sub") != alert.user_id: raise HTTPException(403)"
forbidden(current_user, alert) == current_user # alert.user_id

\* A faulty variant of mark_alert_read_row: read is set, read_at is not.
mark_alert_read_rowNoTimestamp(alert, t) ==
    [alert EXCEPT !.read = TRUE]

\* A faulty variant of mark_alert_read_row: reading resets the click.
mark_alert_read_rowUnclicks(alert, t) ==
    [alert EXCEPT !.read = TRUE, !.clicked = FALSE, !.read_at = t]

\* mark_alert_read: alert.read = True; alert.read_at = datetime.utcnow()
mark_alert_read_row(alert, t) ==
    [alert EXCEPT !.read = TRUE, !.read_at = t]

\* A faulty variant of record_alert_click_row: clicked is set, read is not.
record_alert_click_rowKeepsUnread(alert, t) ==
    [alert EXCEPT !.clicked = TRUE]

\* record_alert_click: clicked, read and read_at are set
record_alert_click_row(alert, t) ==
    [alert EXCEPT !.clicked = TRUE, !.read = TRUE, !.read_at = t]

\* A faulty variant of committed: delete_alert keeps the row.
committedKeepsDeleted(endpoint, alert) ==
    CASE endpoint = "get_alert" -> {alert}
      [] endpoint = "mark_alert_read" -> {mark_alert_read_row(alert, now)}
      [] endpoint = "record_alert_click" -> {record_alert_click_row(alert, now)}
      [] endpoint = "delete_alert" -> {alert}

\* What each alerts endpoint commits for the row it found.
committed(endpoint, alert) ==
    CASE endpoint = "get_alert" -> {alert}
      [] endpoint = "mark_alert_read" -> {mark_alert_read_row(alert, now)}
      [] endpoint = "record_alert_click" -> {record_alert_click_row(alert, now)}
      [] endpoint = "delete_alert" -> {}

\* The shape the four endpoints share: 404 without the row, 403 for another
\* user's row, otherwise the commit and the 200 answer.
alerts_endpoint(endpoint, current_user, alert_id) ==
    LET found == query_alert(alert_id)
    IN /\ IF found = None
          THEN /\ response' = HTTP_404_NOT_FOUND
               /\ UNCHANGED alerts
          ELSE IF forbidden(current_user, found[1])
          THEN /\ response' = HTTP_403_FORBIDDEN
               /\ UNCHANGED alerts
          ELSE /\ response' = HTTP_200_OK
               /\ alerts' = (alerts \ {found[1]}) \cup committed(endpoint, found[1])
       /\ UNCHANGED <<app, users, user_preferences, nextId, now, pc, request, idx,
                      results, fcm, acked, decisions, store, orchestration,
                      concurrency>>

\* ----------------------------- the alerts endpoints served side by side

\* an alerts endpoint up to its checks: the row is loaded, 404 without it, 403
\* for another user's row
alerts_endpoint_query(s, endpoint, current_user, alert_id) ==
    /\ sessions[s].endpoint = "none"
    /\ LET found == query_alert(alert_id)
       IN IF found = None
          THEN response' = HTTP_404_NOT_FOUND /\ UNCHANGED sessions
          ELSE IF forbidden(current_user, found[1])
          THEN response' = HTTP_403_FORBIDDEN /\ UNCHANGED sessions
          ELSE /\ sessions' =
                    [sessions EXCEPT ![s] =
                        [user_id |-> "", endpoint |-> endpoint,
                         current_user |-> current_user, alert_id |-> alert_id,
                         update_data |-> None, row |-> found,
                         body |-> sessions[s].body]]
               /\ UNCHANGED response
    /\ UNCHANGED <<app, users, user_preferences, alerts, nextId, now, pc, request,
                   idx, results, fcm, acked, decisions, store, orchestration,
                   extra_rows>>

\* A faulty variant of update_alert_columns: the commit writes every column of
\* the loaded object.
update_alert_columnsWholeRow(stored, loaded, edited) == edited

\* the UPDATE of the commit: the columns whose value the request has changed on
\* the loaded object are written to the stored row
update_alert_columns(stored, loaded, edited) ==
    [f \in DOMAIN stored |-> IF edited[f] # loaded[f] THEN edited[f] ELSE stored[f]]

\* mark_alert_read, record_alert_click or delete_alert from its assignments on:
\* the commit changes or deletes the row with the id of the loaded one. The
\* UPDATE of a row that is gone raises; the DELETE of one raises or only warns,
\* as the version of the ORM has it.
alerts_endpoint_commit(s) ==
    /\ sessions[s].endpoint \in {"mark_alert_read", "record_alert_click", "delete_alert"}
    /\ LET loaded == sessions[s].row[1]
           stored == query_alert(loaded.id)
       IN IF sessions[s].endpoint = "delete_alert"
          THEN /\ alerts' = {a \in alerts : a.id # loaded.id}
               /\ IF stored = None
                  THEN response' \in {HTTP_200_OK, HTTP_500_INTERNAL_SERVER_ERROR}
                  ELSE response' = HTTP_200_OK
               /\ sessions' = [sessions EXCEPT ![s] = NoSession]
          ELSE IF stored = None
          THEN /\ response' = HTTP_500_INTERNAL_SERVER_ERROR
               /\ sessions' = [sessions EXCEPT ![s] = NoSession]
               /\ UNCHANGED alerts
          ELSE LET edited == IF sessions[s].endpoint = "mark_alert_read"
                             THEN mark_alert_read_row(loaded, now)
                             ELSE record_alert_click_row(loaded, now)
                   refreshed == update_alert_columns(stored[1], loaded, edited)
               IN /\ alerts' = (alerts \ {stored[1]}) \cup {refreshed}
                  /\ response' = HTTP_200_OK
                  /\ sessions' = [sessions EXCEPT ![s] = NoSession]
    /\ UNCHANGED <<app, users, user_preferences, nextId, now, pc, request, idx,
                   results, fcm, acked, decisions, store, orchestration, extra_rows>>

\* GET /api/v1/alerts/{alert_id}
get_alert(current_user, alert_id) ==
    alerts_endpoint("get_alert", current_user, alert_id)

\* POST /api/v1/alerts/{alert_id}/read
mark_alert_read(current_user, alert_id) ==
    alerts_endpoint("mark_alert_read", current_user, alert_id)

\* POST /api/v1/alerts/{alert_id}/click
record_alert_click(current_user, alert_id) ==
    alerts_endpoint("record_alert_click", current_user, alert_id)

\* DELETE /api/v1/alerts/{alert_id}
delete_alert(current_user, alert_id) ==
    alerts_endpoint("delete_alert", current_user, alert_id)

\* time passes between two calls of datetime.utcnow()
Tick ==
    /\ now < MaxTime
    /\ now' = now + 1
    /\ UNCHANGED <<app, users, user_preferences, alerts, nextId, pc, request, idx,
                   results, fcm, acked, decisions, response, store,
                   orchestration, concurrency>>

\* Both eligibility decisions for one prediction and every user: the selection
\* of identify_affected_users, and _should_send_notification on the alert data
\* that send_alerts builds from the prediction.
evaluate_eligibility(disaster_types, risk_scores) ==
    /\ ~decisions.taken
    /\ \E d \in disaster_types, r \in risk_scores, table_order \in Permutations_(UserIds) :
        LET prediction == [disaster_type |-> d, risk_score |-> r, latitude |-> 0,
                           longitude |-> 0, affected_radius_km |-> 111]
            alerts_to_send == identify_affected_users(<<prediction>>, table_order)
            \* what a DAG run makes of the prediction when it is the stored one
            run == identify_affected_users(get_latest_predictions(<<prediction>>),
                                           table_order)
            alert_data ==
                send_alerts_request(<<alert_entry("u1", prediction)>>).alert_data
        IN decisions' =
             [taken |-> TRUE,
              prediction |-> prediction,
              selected |-> [u \in UserIds |->
                              \E i \in 1..Len(alerts_to_send) :
                                  alerts_to_send[i].user_id = u],
              admitted |-> [u \in UserIds |->
                              _should_send_notification(
                                  alert_data, query_preferences(u))],
              listed |-> [u \in UserIds |->
                            \E i \in 1..Len(run) : run[i].user_id = u]]
    /\ UNCHANGED <<app, users, user_preferences, alerts, nextId, now, pc, request,
                   idx, results, fcm, acked, response, store,
                   orchestration, concurrency>>

\* ------------------------------------------------------- specifications

\* the row POST /auth/register stores, and the device token a later update sets
Registered(token, latitude, longitude) ==
    [latitude |-> latitude, longitude |-> longitude,
     notification_enabled |-> TRUE, notification_token |-> token]

\* Three registered users, one degree of latitude apart. u1 has no preference
\* row, u2 the row get_preferences creates, u3 a row changed by
\* update_preferences. No alert has been sent yet.
InitStore ==
    /\ user_preferences =
         [u \in {"u2", "u3"} |->
            IF u = "u2" THEN DefaultPreference
            ELSE [DefaultPreference EXCEPT !.severe_storm_alerts = FALSE,
                                           !.min_risk_level = "HIGH",
                                           !.max_daily_alerts = 1]]
    /\ alerts = {}
    /\ nextId = 1
    /\ now = 0
    /\ pc = "idle"
    /\ request = NoRequest
    /\ idx = 1
    /\ results = new_results(<<>>)
    /\ fcm = <<>>
    /\ acked = [u \in UserIds |-> 0]
    /\ decisions = NoDecision
    /\ response = NoResponse
    /\ store = "up"
    /\ dag_runs = 0
    /\ dag_task = "none"
    /\ send_result = None
    /\ record_status = None
    /\ alert_metrics = <<>>
    /\ sessions = [s \in Sessions |-> NoSession]
    /\ extra_rows = <<>>

Directory(token) ==
    [u \in UserIds |->
        CASE u = "u1" -> Registered(token[u], 0, 0)
          [] u = "u2" -> Registered(token[u], 1, 0)
          [] u = "u3" -> Registered(token[u], 2, 0)]

\* Dispatch cycles over a directory that does not change meanwhile: every user
\* has registered a device, or u3 has not.
Init ==
    /\ InitStore
    /\ app \in BOOLEAN
    /\ \E t3 \in {"tok", NoToken} :
          users = Directory([u \in UserIds |-> IF u = "u3" THEN t3 ELSE "tok"])

Next ==
    \/ api_send_alert(SeqsUpTo(UserIds, MaxList), ApiAlertData)
    \/ alert_trigger_dag(PredictionPool)
    \/ send_bulk_alerts
    \/ respond

Spec == Init /\ [][Next]_vars

\* Dispatch while the users edit their profiles.
InitProfile ==
    /\ InitStore
    /\ app = TRUE
    /\ users = Directory([u \in UserIds |-> NoToken])

NextProfile ==
    \/ api_send_alert({<<u>> : u \in UserIds}, {HurricaneAlert})
    \/ alert_trigger_dag({HurricanePrediction})
    \/ send_bulk_alerts
    \/ respond
    \/ \E u \in UserIds, d \in UserUpdates : update_user(u, u, d)

SpecProfile == InitProfile /\ [][NextProfile]_vars

\* The profile and preference endpoints, called by u1 and u2 for every user.
InitAccess ==
    /\ InitStore
    /\ app = TRUE
    /\ users = Directory([u \in UserIds |-> "tok"])

NextAccess ==
    \/ \E c \in {"u1", "u2"}, u \in UserIds : get_user(c, u)
    \/ \E c \in {"u1", "u2"}, u \in UserIds, d \in UserUpdates : update_user(c, u, d)
    \/ \E c \in {"u1", "u2"}, u \in UserIds : get_preferences(c, u)
    \/ \E c \in {"u1", "u2"}, u \in UserIds, d \in PreferenceUpdates :
          update_preferences(c, u, d)

SpecAccess == InitAccess /\ [][NextAccess]_vars

\* DAG runs that hold up to MaxPredictions predictions of different reach; u2
\* has registered no device.
InitMulti ==
    /\ InitStore
    /\ app = TRUE
    /\ users = Directory([u \in UserIds |-> IF u = "u2" THEN NoToken ELSE "tok"])

NextMulti ==
    \/ alert_trigger_dag(MultiPool)
    \/ send_bulk_alerts
    \/ respond

SpecMulti == InitMulti /\ [][NextMulti]_vars

\* Two connections serve mark-read, mark-clicked and delete requests of the
\* owner on the alerts that dispatch creates for u1.
InitRace ==
    /\ InitStore
    /\ app = TRUE
    /\ users = Directory([u \in UserIds |-> "tok"])

NextRace ==
    \/ /\ Cardinality(alerts) < MaxStored
       /\ api_send_alert({<<"u1">>}, {HurricaneAlert})
    \/ send_bulk_alerts
    \/ respond
    \/ \E s \in Sessions, id \in 1..MaxAlerts :
          \E e \in {"mark_alert_read", "record_alert_click", "delete_alert"} :
             alerts_endpoint_query(s, e, "u1", id)
    \/ \E s \in Sessions : alerts_endpoint_commit(s)

SpecRace == InitRace /\ [][NextRace]_vars

\* The preference endpoints served by two connections at a time for u1, who
\* has no row yet, called by u1 and by u2.
InitPreferences ==
    /\ InitStore
    /\ app = TRUE
    /\ users = Directory([u \in UserIds |-> "tok"])

NextPreferences ==
    \/ \E s \in Sessions, c \in {"u1", "u2"} :
          users_endpoint_query(s, "get_preferences", c, "u1", None)
    \/ \E s \in Sessions, c \in {"u1", "u2"}, d \in PreferenceUpdates :
          users_endpoint_query(s, "update_preferences", c, "u1", Some(d))
    \/ \E s \in Sessions : get_preferences_commit(s)
    \/ \E s \in Sessions : update_preferences_commit(s)

SpecPreferences == InitPreferences /\ [][NextPreferences]_vars

\* The engagement endpoints on the alerts that dispatch creates for u1, called
\* by the owner and by another user; at most MaxStored alerts are kept at a time.
Callers == {"u1", "u2"}

InitEngage ==
    /\ InitStore
    /\ app = TRUE
    /\ users = Directory([u \in UserIds |-> "tok"])

NextEngage ==
    \/ /\ Cardinality(alerts) < MaxStored
       /\ api_send_alert({<<"u1">>}, {HurricaneAlert})
    \/ send_bulk_alerts
    \/ respond
    \/ \E u \in Callers, id \in 1..MaxAlerts : get_alert(u, id)
    \/ \E u \in Callers, id \in 1..MaxAlerts : mark_alert_read(u, id)
    \/ \E u \in Callers, id \in 1..MaxAlerts : record_alert_click(u, id)
    \/ \E u \in Callers, id \in 1..MaxAlerts : delete_alert(u, id)
    \/ Tick

SpecEngage == InitEngage /\ [][NextEngage]_vars

\* Runs of the DAG with their tasks, over a store that can fail.
InitCycle ==
    /\ InitStore
    /\ app = TRUE
    /\ users = Directory([u \in UserIds |-> "tok"])

NextCycle ==
    \/ stormguard_alert_trigger(PredictionPool)
    \/ send_bulk_alerts
    \/ respond
    \/ send_alerts_timeout
    \/ record_alert_status
    \/ generate_report
    \/ store_changes

SpecCycle == InitCycle /\ [][NextCycle]_vars

\* The eligibility rules as functions of the prediction and the preference row:
\* three users at the prediction's location with a device token; u1 has no
\* preference row, u2 the default row, u3 any row.
PreferenceRows ==
    [hurricane_alerts : BOOLEAN, heat_wave_alerts : BOOLEAN, flood_alerts : BOOLEAN,
     severe_storm_alerts : BOOLEAN, min_risk_level : Levels,
     max_daily_alerts : {10}]

EligTypes == DisasterTypes \cup {"earthquake", "Hurricane"}
EligScores == {29, 30, 59, 60, 79, 80, 92, 95}

InitElig ==
    /\ app = TRUE
    /\ users = [u \in UserIds |-> Registered("tok", 0, 0)]
    /\ \E row \in PreferenceRows :
          user_preferences =
            [u \in {"u2", "u3"} |-> IF u = "u2" THEN DefaultPreference ELSE row]
    /\ alerts = {}
    /\ nextId = 1
    /\ now = 0
    /\ pc = "idle"
    /\ request = NoRequest
    /\ idx = 1
    /\ results = new_results(<<>>)
    /\ fcm = <<>>
    /\ acked = [u \in UserIds |-> 0]
    /\ decisions = NoDecision
    /\ response = NoResponse
    /\ store = "up"
    /\ dag_runs = 0
    /\ dag_task = "none"
    /\ send_result = None
    /\ record_status = None
    /\ alert_metrics = <<>>
    /\ sessions = [s \in Sessions |-> NoSession]
    /\ extra_rows = <<>>

NextElig == evaluate_eligibility(EligTypes, EligScores)

SpecElig == InitElig /\ [][NextElig]_vars

\* ================================================================ claims

AlertsOf(u) == {a \in alerts : a.user_id = u}

\* C1: every existing Alert satisfies clicked => read, after any sequence of
\* dispatch, mark-read, mark-clicked and delete operations.
C1_ClickedImpliesRead ==
    \A a \in alerts : a.clicked => a.read

C1_Witness ==
    \E a, b \in alerts : a.clicked /\ a.read /\ b.read /\ ~b.clicked

\* C2: for every existing Alert, read_at is set exactly when read is true and
\* sent_at is set exactly when sent is true.
C2_TimestampsMatchFlags ==
    \A a \in alerts :
        /\ (a.read_at # NULL) <=> a.read
        /\ (a.sent_at # NULL) <=> a.sent

C2_Witness ==
    \E a, b \in alerts :
        /\ a.read /\ a.read_at # NULL /\ a.sent /\ a.sent_at # NULL
        /\ ~b.read /\ b.read_at = NULL

\* C3: an Alert row with sent = true exists for a user only if the transport
\* accepted a send to that user before: at any moment, also in the middle of a
\* cycle, a user has no more sent Alert rows than accepted sends.
C3_AlertOnlyAfterAcceptedSend ==
    \A u \in UserIds :
        Cardinality({a \in AlertsOf(u) : a.sent}) <= acked[u]

\* a cycle with a sent, a failed-by-transport and a skipped user
C3_Witness ==
    /\ pc = "done"
    /\ results.sent > 0
    /\ results.skipped > 0
    /\ \E i \in 1..Len(fcm) : ~fcm[i].accepted

\* The outcome the claims expect for each entry of the input, from that user's
\* own rows and the transport's answer to that user's send alone. log holds the
\* transport's answers in the order of the sends.
TokenMissing(user_id) ==
    user_id \notin DOMAIN users \/ users[user_id].notification_token \in {NoToken, ""}

RECURSIVE ExpectedOutcomes(_, _, _)
ExpectedOutcomes(user_ids, alert_data, log) ==
    IF user_ids = <<>> THEN <<>>
    ELSE LET u == Head(user_ids)
         IN IF ~app \/ TokenMissing(u)
            THEN <<"failed">> \o ExpectedOutcomes(Tail(user_ids), alert_data, log)
            ELSE IF ~_should_send_notification(alert_data, query_preferences(u))
            THEN <<"skipped">> \o ExpectedOutcomes(Tail(user_ids), alert_data, log)
            ELSE IF log = <<>>
            THEN <<"unattempted">> \o ExpectedOutcomes(Tail(user_ids), alert_data, log)
            ELSE <<IF Head(log).accepted THEN "sent" ELSE "failed">>
                 \o ExpectedOutcomes(Tail(user_ids), alert_data, Tail(log))

Count(seq, v) == Cardinality({i \in 1..Len(seq) : seq[i] = v})

RequestOutcomes == ExpectedOutcomes(request.user_ids, request.alert_data, fcm)

Distinct(seq) == \A i, j \in 1..Len(seq) : seq[i] = seq[j] => i = j

TotalAcked == acked["u1"] + acked["u2"] + acked["u3"]

ThreeUsersSecondFails ==
    /\ pc = "done"
    /\ Len(request.user_ids) = 3
    /\ Distinct(request.user_ids)
    /\ Len(fcm) = 3
    /\ fcm[1].accepted /\ ~fcm[2].accepted /\ fcm[3].accepted
    /\ TotalAcked = 2

\* C4: a transport failure for one user never prevents the attempt for, or
\* changes the outcome of, another user in the list: send_bulk_alerts is never
\* left by an exception; when it returns, every entry of the list has the
\* outcome its own user and its own transport answer give; and with three
\* eligible users of which only the second fails, the result is total 3, sent 2,
\* failed 1, skipped 0 with exactly 2 Alert rows.
C4_PartialFailureIsolation ==
    /\ pc # "raised"
    /\ pc = "done" =>
          /\ Count(RequestOutcomes, "unattempted") = 0
          /\ Len(fcm) = Len(request.user_ids) - Count(RequestOutcomes, "skipped")
                          - Cardinality({i \in 1..Len(request.user_ids) :
                                ~app \/ TokenMissing(request.user_ids[i])})
          /\ results.sent = Count(RequestOutcomes, "sent")
          /\ results.failed = Count(RequestOutcomes, "failed")
          /\ results.skipped = Count(RequestOutcomes, "skipped")
    /\ ThreeUsersSecondFails =>
          /\ results.total = 3 /\ results.sent = 2
          /\ results.failed = 1 /\ results.skipped = 0
          /\ Cardinality(alerts) = 2

C4_Witness ==
    /\ ThreeUsersSecondFails
    /\ results.sent = 2 /\ results.failed = 1
    /\ Cardinality(alerts) = 2

\* C5: within one dispatch cycle the transport is invoked at most once per
\* user, also when the user id is listed more than once in the cycle's input.
C5_AtMostOneSendPerUser ==
    \A i, j \in 1..Len(fcm) : fcm[i].user_id = fcm[j].user_id => i = j

\* C6: when send_bulk_alerts returns, total is the number of user ids passed,
\* sent + failed + skipped = total, and errors holds one {user_id, error} entry
\* per failed entry of the input, in order, and none for a sent or skipped one.
FailedUsers ==
    LET o == RequestOutcomes
        failed == SelectSeq([i \in 1..Len(o) |-> <<request.user_ids[i], o[i]>>],
                            LAMBDA e : e[2] = "failed")
    IN [i \in 1..Len(failed) |-> failed[i][1]]

C6_ResultAccounting ==
    pc = "done" =>
        /\ results.total = Len(request.user_ids)
        /\ results.sent + results.failed + results.skipped = results.total
        /\ Len(results.errors) = results.failed
        /\ [i \in 1..Len(results.errors) |-> results.errors[i].user_id] = FailedUsers
        /\ \A i \in 1..Len(results.errors) :
               DOMAIN results.errors[i] = {"user_id", "error"}

C6_Witness ==
    /\ pc = "done"
    /\ results.sent > 0 /\ results.failed > 0 /\ results.skipped > 0
    /\ Len(results.errors) = results.failed

\* C7: no transport send is ever performed for a user whose notifications are
\* disabled or who has no (null or empty) device token at the time of the send.
C7_NoSendToDisabledUser ==
    [][Len(fcm') > Len(fcm) =>
          LET m == fcm'[Len(fcm')]
          IN /\ users[m.user_id].notification_enabled
             /\ users[m.user_id].notification_token \notin {NoToken, ""}]_vars

\* C8: for every prediction, a user with no Preference row (u1) gets the same
\* decision, at selection and at the send-time re-check, as an otherwise
\* identical user whose row holds the defaults (u2).
C8_MissingRowEqualsDefaultRow ==
    decisions.taken =>
        /\ decisions.selected["u1"] = decisions.selected["u2"]
        /\ decisions.admitted["u1"] = decisions.admitted["u2"]

\* The threshold table of the claim.
ClaimedThreshold(level) ==
    CASE level = "LOW" -> 30
      [] level = "MEDIUM" -> 60
      [] level = "HIGH" -> 80
      [] level = "CRITICAL" -> 95

TypeEnabled(u, disaster_type) ==
    \/ type_map(lower(disaster_type)) = None
    \/ user_preferences[u][type_map(lower(disaster_type))[1]]

\* C9: at selection and at the send-time re-check, a user with a Preference row
\* that enables the type is rejected exactly when the probability is below
\* threshold(min_risk_level), LOW 0.30, MEDIUM 0.60, HIGH 0.80, CRITICAL 0.95.
C9_RiskThresholdRule ==
    decisions.taken =>
        \A u \in DOMAIN user_preferences :
            LET p == decisions.prediction
                meets == p.risk_score >= ClaimedThreshold(user_preferences[u].min_risk_level)
            IN /\ (p.disaster_type \in DisasterTypes /\ TypeEnabled(u, p.disaster_type))
                     => (decisions.selected[u] <=> meets)
               /\ TypeEnabled(u, p.disaster_type)
                     => (decisions.admitted[u] <=> meets)

\* C10: mark-read on an alert that is already read or clicked leaves clicked,
\* read and read_at exactly as they were.
C10_MarkReadIsNoOpWhenRead ==
    [][\A u \in UserIds, id \in 1..MaxAlerts :
          mark_alert_read(u, id) =>
              \A a \in alerts : (a.id = id /\ a.read) => a \in alerts']_vars

\* C11: mark-read, mark-clicked and delete by a caller who is not the owner of
\* the alert answer 403 and leave the alert present and unchanged; the same
\* calls for an id without an alert answer 404 (another status than 403) and
\* change no alert.
NotOwner(u, id) == \E a \in alerts : a.id = id /\ a.user_id # u

NoSuchAlert(id) == \A a \in alerts : a.id # id

C11_ForbiddenAndNotFound ==
    [][\A u \in Callers, id \in 1..MaxAlerts :
          (\/ mark_alert_read(u, id)
           \/ record_alert_click(u, id)
           \/ delete_alert(u, id))
          => /\ NotOwner(u, id) =>
                   response' = HTTP_403_FORBIDDEN /\ alerts' = alerts
             /\ NoSuchAlert(id) =>
                   response' = HTTP_404_NOT_FOUND /\ alerts' = alerts
             /\ HTTP_403_FORBIDDEN # HTTP_404_NOT_FOUND]_vars

C11_Witness ==
    /\ response = HTTP_403_FORBIDDEN
    /\ \E a \in alerts : a.read /\ ~a.clicked

\* C12: a failed read of the store aborts the cycle. When the selection's query
\* fails the run fails and nothing is dispatched; once a send-time lookup of
\* the cycle has failed, no further transport send is made in that cycle.
ReadFailedInCycle ==
    \E i \in 1..Len(results.errors) : results.errors[i].error = "db.query failed"

C12_StoreErrorsFailClosed ==
    [][/\ (dag_task' = "failed" /\ dag_task # "failed")
            => UNCHANGED <<pc, request, fcm>>
       /\ ReadFailedInCycle => Len(fcm') <= Len(fcm)]_vars

\* C13: the sent and failed counts that send_alerts returns to the orchestrator
\* are the counts of the cycle the engine served: when the task returns after
\* the engine has finished, and when the engine finishes after the task has
\* returned (the call timed out), the two pairs of counts are equal.
SameCounts(returned, served) ==
    returned[1].sent = served.sent /\ returned[1].failed = served.failed

C13_ResultNeverHidesPartialSuccess ==
    [][/\ (send_result = None /\ send_result' # None /\ pc = "done")
            => SameCounts(send_result', results)
       /\ (send_result' # None /\ pc' = "done")
            => SameCounts(send_result', results')]_vars

\* C14: record_alert_status never fails the run and returns the summary it was
\* given, whether or not the metrics insert succeeded, and changes nothing that
\* the earlier tasks produced (the result of send_alerts, the Alert rows, the
\* sends).
C14_MetricsFailureIsNonFatal ==
    [][(dag_task = "record_alert_status" /\ dag_task' # dag_task)
          => /\ dag_task' = "generate_report"
             /\ record_status' = Some([status |-> "recorded", summary |-> send_result[1]])
             /\ UNCHANGED <<send_result, alerts, acked, results, fcm>>]_vars

\* the insert failed after a cycle that sent an alert
C14_Witness ==
    /\ dag_task = "generate_report"
    /\ alert_metrics = <<>>
    /\ record_status # None
    /\ record_status[1].summary.sent > 0
    /\ alerts # {}

\* C15: a user whose eligibility fails at the send-time re-check (the device
\* token is gone, the preference row disables the type, or the probability is
\* below the row's threshold) is Skipped: the iteration adds one to skipped,
\* nothing to failed or errors, makes no transport send and no Alert row.
IneligibleAtSend(user_id, alert_data) ==
    \/ TokenMissing(user_id)
    \/ ~_should_send_notification(alert_data, query_preferences(user_id))

C15_IneligibleAtSendIsSkipped ==
    [][(/\ pc = "loop"
        /\ idx' = idx + 1
        /\ IneligibleAtSend(request.user_ids[idx], request.alert_data))
          => /\ results'.skipped = results.skipped + 1
             /\ results'.failed = results.failed
             /\ results'.errors = results.errors
             /\ fcm' = fcm
             /\ alerts' = alerts]_vars

\* C16: whenever the transport accepts a message, that iteration counts the
\* user as sent, not as failed, and adds exactly one Alert row for the user with
\* sent = true and sent_at set.
TransportAccepted ==
    /\ Len(fcm') = Len(fcm) + 1
    /\ fcm'[Len(fcm')].accepted

C16_SentIsAtomicWithTransportSuccess ==
    [][TransportAccepted
          => /\ results'.sent = results.sent + 1
             /\ results'.failed = results.failed
             /\ \E a \in alerts' \ alerts :
                   /\ alerts' = alerts \cup {a}
                   /\ a.user_id = fcm'[Len(fcm')].user_id
                   /\ a.sent
                   /\ a.sent_at # NULL]_vars

\* C17: for every disaster-type value and every preference row the selector
\* and _should_send_notification take the same type-gating decision, by the
\* table hurricane -> hurricane_alerts, heat_wave -> heat_wave_alerts, flood ->
\* flood_alerts, severe_storm, tornado and wildfire -> severe_storm_alerts.
\* Decided on predictions whose probability passes every threshold, for users
\* inside the area, so that only the type gate can reject.
ClaimedFlag(disaster_type) ==
    CASE disaster_type = "hurricane" -> "hurricane_alerts"
      [] disaster_type = "heat_wave" -> "heat_wave_alerts"
      [] disaster_type = "flood" -> "flood_alerts"
      [] disaster_type \in {"severe_storm", "tornado", "wildfire"} -> "severe_storm_alerts"

C17_SharedTypeMapping ==
    (decisions.taken /\ decisions.prediction.risk_score >= 95) =>
        \A u \in UserIds :
            LET d == decisions.prediction.disaster_type
            IN /\ decisions.selected[u] = decisions.admitted[u]
               /\ (d \in DisasterTypes /\ u \in DOMAIN user_preferences)
                     => (decisions.selected[u] = user_preferences[u][ClaimedFlag(d)])

\* C18: deletion is terminal. A delete that answers 200 leaves no alert with
\* that id; while an id that was given out has no alert, get, mark-read,
\* mark-clicked and delete on it answer 404 and change nothing; and no step
\* brings an alert with such an id back.
Deleted(id) == id < nextId /\ NoSuchAlert(id)

C18_DeletionIsTerminal ==
    [][/\ \A id \in 1..MaxAlerts : Deleted(id) => \A a \in alerts' : a.id # id
       /\ \A u \in Callers, id \in 1..MaxAlerts :
             /\ (delete_alert(u, id) /\ response' = HTTP_200_OK)
                   => \A a \in alerts' : a.id # id
             /\ Deleted(id) =>
                   ((\/ get_alert(u, id)
                     \/ mark_alert_read(u, id)
                     \/ record_alert_click(u, id)
                     \/ delete_alert(u, id))
                    => response' = HTTP_404_NOT_FOUND /\ alerts' = alerts)]_vars

\* an alert was deleted, a later one exists, and a call has answered 404
C18_Witness ==
    /\ Deleted(1)
    /\ \E a \in alerts : a.id > 1
    /\ response = HTTP_404_NOT_FOUND

\* C19: for a prediction at (0,0) with radius_km = 111, a notifiable user at
\* (1,0) is a row of the users query and a user at (2,0) is not; the request
\* that a run posts for such a prediction names the former and not the latter
\* (in these runs no other prediction selects the user at (2,0)).
At(user_id, latitude, longitude) ==
    users[user_id].latitude = latitude /\ users[user_id].longitude = longitude

Notifiable(user_id, prediction) ==
    /\ users[user_id].notification_enabled
    /\ users[user_id].notification_token # NoToken
    /\ sql_type_enabled(prediction.disaster_type, user_id)

AtOrigin(r) == r.latitude = 0 /\ r.longitude = 0

Named(user_id) == \E i \in DOMAIN request.user_ids : request.user_ids[i] = user_id

C19_BoundingBoxInclusion ==
    /\ \A p \in PredictionPool, u \in UserIds :
          (AtOrigin(p) /\ p.affected_radius_km = 111) =>
             /\ (At(u, 1, 0) /\ Notifiable(u, p)) => affected_user(u, p)
             /\ At(u, 2, 0) => ~affected_user(u, p)
    /\ (dag_task = "send_alerts" /\ AtOrigin(request.alert_data)
                                 /\ request.alert_data.radius_km = 111) =>
          \A u \in UserIds :
             /\ (At(u, 1, 0) /\ users[u].notification_enabled
                             /\ users[u].notification_token # NoToken
                             /\ u \notin DOMAIN user_preferences) => Named(u)
             /\ At(u, 2, 0) => ~Named(u)

\* a run has posted a request for a prediction of radius 111 at (0,0) that
\* names the user at (1,0) while a user lives at (2,0)
C19_Witness ==
    /\ dag_task = "send_alerts"
    /\ AtOrigin(request.alert_data)
    /\ request.alert_data.radius_km = 111
    /\ \E u, v \in UserIds : At(u, 1, 0) /\ Named(u) /\ At(v, 2, 0) /\ ~Named(v)

\* C20: a call of get_user, update_user, get_preferences or update_preferences
\* by a caller other than the user of the path answers 403, leaves that user's
\* profile and every preference row as they were, and creates no preference row.
CrossUserCall(c, u) ==
    \/ get_user(c, u)
    \/ \E d \in UserUpdates : update_user(c, u, d)
    \/ get_preferences(c, u)
    \/ \E d \in PreferenceUpdates : update_preferences(c, u, d)

Completes(s, endpoint) ==
    /\ sessions[s].endpoint = endpoint
    /\ sessions'[s].endpoint = "none"
    /\ response' = HTTP_200_OK

C21_GetOrCreatePreferences ==
    [][/\ extra_rows' = <<>>
       /\ \A s \in Sessions :
             Completes(s, "get_preferences") =>
                LET u == sessions[s].user_id
                    body == sessions'[s].body
                IN /\ u \in DOMAIN user_preferences'
                   /\ body # None
                   /\ IF sessions[s].row = None
                      THEN /\ u \notin DOMAIN user_preferences
                           /\ body = Some(user_preferences'[u])
                           /\ body[1].hurricane_alerts
                           /\ body[1].heat_wave_alerts
                           /\ body[1].flood_alerts
                      ELSE /\ body = sessions[s].row
                           /\ user_preferences' = user_preferences]_vars

\* both connections found no row for u1; one has created it, the commit of the
\* other was refused
C21_Witness ==
    /\ response = HTTP_500_INTERNAL_SERVER_ERROR
    /\ "u1" \in DOMAIN user_preferences
    /\ \E s \in Sessions : sessions[s].body = Some(get_preferences_default)
    /\ \A s \in Sessions : sessions[s].endpoint = "none"

\* C22: a click by the owner sets clicked and read; on an alert that is already
\* read it leaves read_at as it was, and it sets read_at to the current time
\* only when the alert was not read before.
C22_ClickKeepsReadAt ==
    [][\A u \in Callers, id \in 1..MaxAlerts :
          (record_alert_click(u, id) /\ response' = HTTP_200_OK) =>
             LET before == query_alert(id)[1]
                 after == CHOOSE a \in alerts' : a.id = id
             IN /\ after.clicked /\ after.read
                /\ before.read => after.read_at = before.read_at
                /\ ~before.read => after.read_at = now]_vars

\* C23: engagement only moves forward. Whatever dispatch, mark-read and
\* mark-clicked do, an alert that exists before and after a step keeps sent,
\* read and clicked once they are true.
C23_EngagementOnlyMovesForward ==
    [][\A a \in alerts, b \in alerts' :
          b.id = a.id =>
             /\ a.sent => b.sent
             /\ a.read => b.read
             /\ a.clicked => b.clicked]_vars

\* a clicked alert has been marked read again and dispatch has gone on
C23_Witness ==
    /\ \E a \in alerts : a.clicked /\ a.read /\ a.read_at > a.sent_at
    /\ \E a \in alerts : ~a.read
    /\ response = HTTP_200_OK

\* C24: a dispatch cycle only appends. A step of the request (its start, an
\* iteration of send_bulk_alerts, its answer) leaves every alert that exists as
\* it is, and leaves the users and their preferences as they are.
DispatchStep == pc' # pc \/ idx' # idx \/ results' # results

C24_DispatchOnlyAppends ==
    [][DispatchStep =>
          /\ alerts \subseteq alerts'
          /\ users' = users
          /\ user_preferences' = user_preferences]_vars

\* dispatch has created an alert next to one that was read and clicked before
C24_Witness ==
    \E a, b \in alerts : a.id < b.id /\ a.clicked /\ a.read_at < b.sent_at

\* C25: daily cap. No user with a preference row has been sent more alerts
\* today than the max_daily_alerts of that row (the clock of these runs stays
\* within one day).
SentToday(user_id) == Cardinality({a \in alerts : a.user_id = user_id})

C25_DailyCap ==
    \A u \in DOMAIN user_preferences :
        SentToday(u) <= user_preferences[u].max_daily_alerts

\* C26: in a DAG run with more than one prediction, the Alert record created
\* for a user carries the disaster_type and risk_score of a prediction for
\* which that user was selected.
SelectedFor(user_id, prediction) ==
    /\ prediction.risk_score > RISK_THRESHOLD
    /\ affected_user(user_id, prediction)
    /\ meets_risk_preference(user_id, prediction)

C26_AlertCarriesItsPrediction ==
    \A a \in alerts :
        \E p \in MultiPool :
            /\ p.disaster_type = a.disaster_type
            /\ p.risk_score = a.risk_score
            /\ SelectedFor(a.user_id, p)

\* C27: the stages of a DAG run execute in sequence. The run passes from
\* selection to send_alerts, from there to record_alert_status and from there
\* to generate_report; send_alerts has no result while it runs, and
\* record_alert_status and generate_report run with the result of every stage
\* before them and of none after them.
StageOrder ==
    {<<"none", "send_alerts">>, <<"none", "record_alert_status">>,
     <<"none", "failed">>, <<"failed", "send_alerts">>,
     <<"failed", "record_alert_status">>,
     <<"send_alerts", "record_alert_status">>,
     <<"record_alert_status", "generate_report">>,
     <<"generate_report", "none">>}

StageOutputs ==
    /\ dag_task = "send_alerts" => send_result = None /\ record_status = None
    /\ dag_task = "record_alert_status" => send_result # None /\ record_status = None
    /\ dag_task = "generate_report" => send_result # None /\ record_status # None

C27_StagesRunInSequence ==
    [][/\ dag_task' # dag_task => <<dag_task, dag_task'>> \in StageOrder
       /\ StageOutputs']_vars

\* the run has reached generate_report after a request was posted and answered
C27_Witness ==
    /\ dag_task = "generate_report"
    /\ send_result # None /\ send_result[1].sent > 0
    /\ record_status # None

\* C28: the per-user threshold alone decides risk eligibility in a DAG run. A
\* stored prediction whose probability is at least the threshold of an in-range,
\* notifiable, type-enabled user with a preference row yields an entry for that
\* user in alerts_to_send.
C28_UserThresholdAloneDecides ==
    decisions.taken =>
        \A u \in DOMAIN user_preferences :
            LET p == decisions.prediction
            IN (/\ p.disaster_type \in DisasterTypes
                /\ affected_user(u, p)
                /\ p.risk_score >= risk_threshold_map(user_preferences[u].min_risk_level))
               => decisions.listed[u]

\* C29: without an initialized transport client nothing is read, sent or
\* stored: no transport call is made, no Alert record exists, every user
\* processed so far is counted as failed with the error of the missing client
\* (whatever the user's own rows would have given), and the finished request
\* reports sent 0, skipped 0 and failed = total with one error per user.
C29_UninitializedTransportFailsAll ==
    ~app =>
        /\ fcm = <<>>
        /\ alerts = {}
        /\ \A u \in UserIds : acked[u] = 0
        /\ pc \in {"loop", "done"} =>
              /\ results.sent = 0
              /\ results.skipped = 0
              /\ results.failed = idx - 1
              /\ results.errors =
                    [i \in 1..(idx - 1) |->
                        [user_id |-> request.user_ids[i],
                         error |-> "Firebase not initialized"]]
        /\ pc = "done" => results.failed = results.total

\* a finished request for three users, one of them without a device token,
\* one of them twice
C29_Witness ==
    /\ ~app
    /\ pc = "done"
    /\ results.total = 3
    /\ results.failed = 3
    /\ \E i \in 1..3 : users[request.user_ids[i]].notification_token = NoToken

\* C30: under any interleaving of mark-read, mark-clicked and delete requests
\* on the same alert, each a load of the row followed later by its commit, every
\* stored alert has clicked => read and read_at set iff read; a read or a click
\* that was committed stays on the row as long as it exists; a request that
\* answers 200 leaves its own mark on the row; and a deleted alert does not
\* come back.
Answers200(s, endpoint) ==
    /\ sessions[s].endpoint = endpoint
    /\ sessions'[s].endpoint = "none"
    /\ response' = HTTP_200_OK

C30_ConcurrentEngagementIsSafe ==
    [][/\ \A b \in alerts' :
             /\ b.clicked => b.read
             /\ b.read <=> b.read_at # NULL
       /\ \A a \in alerts, b \in alerts' :
             b.id = a.id => (a.read => b.read) /\ (a.clicked => b.clicked)
       /\ \A b \in alerts' : b.id < nextId => \E a \in alerts : a.id = b.id
       /\ \A s \in Sessions :
             LET id == sessions[s].row[1].id
             IN /\ Answers200(s, "mark_alert_read") =>
                      \E b \in alerts' : b.id = id /\ b.read
                /\ Answers200(s, "record_alert_click") =>
                      \E b \in alerts' : b.id = id /\ b.clicked /\ b.read
                /\ Answers200(s, "delete_alert") =>
                      \A b \in alerts' : b.id # id]_vars

\* a mark-read request still holds the unread row it loaded while a click on the
\* same alert has been committed by the other connection
C30_Witness ==
    \E s \in Sessions, a \in alerts :
        /\ sessions[s].endpoint = "mark_alert_read"
        /\ sessions[s].row[1].id = a.id
        /\ ~sessions[s].row[1].read
        /\ a.clicked
        /\ \A t \in Sessions \ {s} : sessions[t].endpoint = "none"

====
